---- MODULE Spec2Model ----
(***************************************************************************)
(* Model of levenshtein/compression.py: the Compression strategies         *)
(* (BasicCompression, CRCCompression, MD5Compression, CBasicCompression),  *)
(* the shared _core/_add_char window scan, and the Compressor facade.      *)
(*                                                                         *)
(* A Python 2 str is modelled as the sequence of its byte values, so       *)
(* ord(c) is the byte and chr(i) is defined only for 0 <= i < 256.         *)
(* A Python integer (unbounded, signed) is modelled as a record            *)
(* [neg, mag] with mag a little-endian sequence of bits (mag[1] is bit 0), *)
(* because the hashes do not fit a machine word.                           *)
(***************************************************************************)
EXTENDS Integers, Sequences, FiniteSets, TLC

\* Longest input string handed to compress.
MaxLen == 3

\* The byte values input strings are drawn from: "a", "b".  For every strategy
\* some window over them emits and some does not under C = 2, and some window's
\* hash modulo 300 is 256 or more.
Bytes == {97, 98}

\* The string "abc".
Abc == <<97, 98, 99>>

\* 2^n for 0 <= n <= 30.
Pow2Table ==
    << 1, 2, 4, 8, 16, 32, 64, 128, 256, 512, 1024, 2048, 4096, 8192, 16384, 32768,
       65536, 131072, 262144, 524288, 1048576, 2097152, 4194304, 8388608, 16777216,
       33554432, 67108864, 134217728, 268435456, 536870912, 1073741824 >>

Pow2(n) == Pow2Table[n + 1]

\* ---------------------------------------------------------------- bits

\* The function as a sequence value, its elements computed once.
AsSeq(f) == f \o <<>>

Zeros(w) == AsSeq([k \in 1..w |-> 0])

\* The w low bits of the small non-negative integer v (v < 2^30).
Bits(v, w) == AsSeq([k \in 1..w |-> IF k > 30 THEN 0 ELSE (v \div Pow2(k - 1)) % 2])

\* A 32-bit word from its two 16-bit halves.
Word(hi, lo) == Bits(lo, 16) \o Bits(hi, 16)

Pad(a, w) == IF Len(a) >= w THEN a ELSE a \o Zeros(w - Len(a))

BitXor(a, b) == AsSeq([k \in 1..Len(a) |-> (a[k] + b[k]) % 2])
BitAnd(a, b) == AsSeq([k \in 1..Len(a) |-> a[k] * b[k]])
BitOr(a, b)  == AsSeq([k \in 1..Len(a) |-> IF a[k] + b[k] > 0 THEN 1 ELSE 0])
BitNot(a)    == AsSeq([k \in 1..Len(a) |-> 1 - a[k]])

\* Logical shift right by one, width kept.
Shr1(a) == AsSeq([k \in 1..Len(a) |-> IF k < Len(a) THEN a[k + 1] ELSE 0])

\* Shift left by s, the width growing by s (Python's << on a non-negative int).
Shl(a, s) == Zeros(s) \o a

\* Rotate a fixed-width word left by s.
Rotl(a, s) == AsSeq([k \in 1..Len(a) |-> a[((k - 1 - s) % Len(a)) + 1]])

\* Bit k of a, zero beyond its width.
BitAt(a, k) == IF k <= Len(a) THEN a[k] ELSE 0

\* The value of the 16 bits of a above bit offset o.
Chunk16(a, o) ==
    BitAt(a, o + 1) + 2 * BitAt(a, o + 2) + 4 * BitAt(a, o + 3) + 8 * BitAt(a, o + 4)
    + 16 * BitAt(a, o + 5) + 32 * BitAt(a, o + 6) + 64 * BitAt(a, o + 7)
    + 128 * BitAt(a, o + 8) + 256 * BitAt(a, o + 9) + 512 * BitAt(a, o + 10)
    + 1024 * BitAt(a, o + 11) + 2048 * BitAt(a, o + 12) + 4096 * BitAt(a, o + 13)
    + 8192 * BitAt(a, o + 14) + 16384 * BitAt(a, o + 15) + 32768 * BitAt(a, o + 16)

\* a + b modulo 2^32 on 32-bit words, by 16-bit halves.
AddMod(a, b) ==
    LET lo == Chunk16(a, 0) + Chunk16(b, 0)
        hi == Chunk16(a, 16) + Chunk16(b, 16) + (lo \div 65536)
    IN  Word(hi % 65536, lo % 65536)

\* The value of the bits modulo the positive integer m < 2^15 (Horner over
\* 16-bit chunks, from the top chunk).
RECURSIVE ModFrom(_, _, _, _)
ModFrom(a, m, c, acc) ==
    IF c = 0 THEN acc
    ELSE ModFrom(a, m, c - 1, (65536 * acc + Chunk16(a, 16 * (c - 1))) % m)

ModBits(a, m) == ModFrom(a, m, (Len(a) + 15) \div 16, 0)

IsZero(a) == \A k \in 1..Len(a) : a[k] = 0

\* Whether the value of the bits is below 2^w.
FitsIn(a, w) == \A k \in 1..Len(a) : k > w => a[k] = 0

\* ------------------------------------------------------- Python integers

PyInt(neg, mag) == [neg |-> neg, mag |-> mag]

\* Python's h % m for m # 0: the result has the sign of m.
PyMod(h, m) ==
    LET am == IF m < 0 THEN 0 - m ELSE m
        r  == ModBits(h.mag, am)
    IN  IF r = 0 THEN 0
        ELSE IF h.neg = (m < 0) THEN (IF m < 0 THEN 0 - r ELSE r)
        ELSE (IF m < 0 THEN r - am ELSE am - r)

\* Python's abs().
PyAbs(h) == PyInt(FALSE, h.mag)

\* Python's a ^ b on two non-negative integers.
PyXor(a, b) ==
    LET w == IF Len(a.mag) >= Len(b.mag) THEN Len(a.mag) ELSE Len(b.mag)
    IN  PyInt(FALSE, BitXor(Pad(a.mag, w), Pad(b.mag, w)))

\* Python's v << s on a non-negative integer.
PyShl(v, s) == PyInt(FALSE, Shl(v.mag, s))

\* i + 2**32 for -2**32 < i < 2**32.
PyAddPow32(i) ==
    IF i.neg
    THEN \* 2^32 - |i| is the 32-bit two's complement of |i|
         PyInt(FALSE, AddMod(BitNot(Pad(i.mag, 32)), Word(0, 1)))
    ELSE PyInt(FALSE, Pad(i.mag, 32) \o <<1>>)

\* ------------------------------------------------- library hash routines

\* All byte strings of length at most n.
RECURSIVE StringsUpTo(_, _)
StringsUpTo(n, bytes) ==
    IF n = 0 THEN {<<>>}
    ELSE LET shorter == StringsUpTo(n - 1, bytes)
         IN  shorter \cup {Append(s, b) : s \in {t \in shorter : Len(t) = n - 1}, b \in bytes}

\* The input strings: every string over Bytes up to MaxLen, and "abc".
Strings == StringsUpTo(MaxLen, Bytes) \cup {Abc}

\* CRC-32 (reflected polynomial 0xEDB88320), bit by bit.
CrcPoly == Word(60856, 33568)

RECURSIVE CrcShift(_, _)
CrcShift(reg, n) ==
    IF n = 0 THEN reg
    ELSE CrcShift(IF reg[1] = 1 THEN BitXor(Shr1(reg), CrcPoly) ELSE Shr1(reg), n - 1)

RECURSIVE CrcBytes(_, _, _)
CrcBytes(data, k, reg) ==
    IF k > Len(data) THEN reg
    ELSE CrcBytes(data, k + 1, CrcShift(BitXor(reg, Bits(data[k], 32)), 8))

Crc32Unsigned(data) == BitNot(CrcBytes(data, 1, BitNot(Zeros(32))))

\* MD5 of a message shorter than 56 bytes (one 512-bit block).
Md5K ==
    << <<55146, 42104>>, <<59591, 46934>>, <<9248, 28891>>, <<49597, 52974>>,
       <<62844, 4015>>, <<18311, 50730>>, <<43056, 17939>>, <<64838, 38145>>,
       <<27008, 39128>>, <<35652, 63407>>, <<65535, 23473>>, <<35164, 55230>>,
       <<27536, 4386>>, <<64920, 29075>>, <<42617, 17294>>, <<18868, 2081>>,
       <<63006, 9570>>, <<49216, 45888>>, <<9822, 23121>>, <<59830, 51114>>,
       <<54831, 4189>>, <<580, 5203>>, <<55457, 59009>>, <<59347, 64456>>,
       <<8673, 52710>>, <<49975, 2006>>, <<62677, 3463>>, <<17754, 5357>>,
       <<43491, 59653>>, <<64751, 41976>>, <<26479, 729>>, <<36138, 19594>>,
       <<65530, 14658>>, <<34673, 63105>>, <<28061, 24866>>, <<64997, 14348>>,
       <<42174, 59972>>, <<19422, 53161>>, <<63163, 19296>>, <<48831, 48240>>,
       <<10395, 32454>>, <<60065, 10234>>, <<54511, 12421>>, <<1160, 7429>>,
       <<55764, 53305>>, <<59099, 39397>>, <<8098, 31992>>, <<50348, 22117>>,
       <<62505, 8772>>, <<17194, 65431>>, <<43924, 9127>>, <<64659, 41017>>,
       <<25947, 22979>>, <<36620, 52370>>, <<65519, 62589>>, <<34180, 24017>>,
       <<28584, 32335>>, <<65068, 59104>>, <<41729, 17172>>, <<19976, 4513>>,
       <<63315, 32386>>, <<48442, 62005>>, <<10967, 53947>>, <<60294, 54161>> >>

Md5S ==
    << 7, 12, 17, 22, 7, 12, 17, 22, 7, 12, 17, 22, 7, 12, 17, 22,
       5, 9, 14, 20, 5, 9, 14, 20, 5, 9, 14, 20, 5, 9, 14, 20,
       4, 11, 16, 23, 4, 11, 16, 23, 4, 11, 16, 23, 4, 11, 16, 23,
       6, 10, 15, 21, 6, 10, 15, 21, 6, 10, 15, 21, 6, 10, 15, 21 >>

Md5Init == << Word(26437, 8961), Word(61389, 43913), Word(39098, 56574), Word(4146, 21622) >>

\* The padded block as 64 bytes: the message, 0x80, zeros, the bit length (little-endian).
Md5Block(data) ==
    AsSeq([j \in 1..64 |->
            IF j <= Len(data) THEN data[j]
            ELSE IF j = Len(data) + 1 THEN 128
            ELSE IF j = 57 THEN (8 * Len(data)) % 256
            ELSE IF j = 58 THEN (8 * Len(data)) \div 256
            ELSE 0])

\* Word g (0..15) of the block, little-endian.
Md5M(block, g) ==
    Bits(block[4 * g + 1], 8) \o Bits(block[4 * g + 2], 8)
        \o Bits(block[4 * g + 3], 8) \o Bits(block[4 * g + 4], 8)

Md5F(i, b, c, d) ==
    IF i < 16 THEN BitOr(BitAnd(b, c), BitAnd(BitNot(b), d))
    ELSE IF i < 32 THEN BitOr(BitAnd(d, b), BitAnd(BitNot(d), c))
    ELSE IF i < 48 THEN BitXor(b, BitXor(c, d))
    ELSE BitXor(c, BitOr(b, BitNot(d)))

Md5G(i) ==
    IF i < 16 THEN i
    ELSE IF i < 32 THEN (5 * i + 1) % 16
    ELSE IF i < 48 THEN (3 * i + 5) % 16
    ELSE (7 * i) % 16

\* Round i (0..63) on the state <<A, B, C, D>>.
Md5Step(block, i, st) ==
    LET f == AddMod(AddMod(Md5F(i, st[2], st[3], st[4]), st[1]),
                    AddMod(Word(Md5K[i + 1][1], Md5K[i + 1][2]), Md5M(block, Md5G(i))))
    IN  << st[4], AddMod(st[2], Rotl(f, Md5S[i + 1])), st[2], st[3] >>

\* Rounds i .. i+n-1 in order (n a power of two), by halves.
RECURSIVE Md5Rounds(_, _, _, _)
Md5Rounds(block, i, n, st) ==
    IF n = 1 THEN Md5Step(block, i, st)
    ELSE LET half == Md5Rounds(block, i, n \div 2, st)
         IN  \* the test makes the first half's value known before the second half runs
             IF Len(half) = 4 THEN Md5Rounds(block, i + n \div 2, n \div 2, half)
             ELSE half

\* The 16 digest bytes, in output order.
Md5Digest(data) ==
    LET st  == Md5Rounds(Md5Block(data), 0, 64, Md5Init)
        out == AsSeq([w \in 1..4 |-> AddMod(Md5Init[w], st[w])])
    IN  AsSeq([j \in 1..16 |->
                LET word == out[((j - 1) \div 4) + 1]
                    b    == (j - 1) % 4
                IN  AsSeq([k \in 1..8 |-> word[8 * b + k]])])

\* hexdigest(): two hex digits per byte, high nibble first; a digit is its value 0..15.

HexDigest(digest) ==
    AsSeq([j \in 1..32 |->
            LET byte == Chunk16(digest[((j - 1) \div 2) + 1], 0)
            IN  IF j % 2 = 1 THEN byte \div 16 ELSE byte % 16])

\* int(s, 16): the first digit is the most significant.
IntBase16(hex) ==
    PyInt(FALSE, AsSeq([k \in 1..(4 * Len(hex)) |->
                          (hex[Len(hex) - ((k - 1) \div 4)] \div Pow2((k - 1) % 4)) % 2]))

\* ------------------------------------------------------------- the state

VARIABLES
    objs,         \* the Compressor instances: id -> its attributes, or Absent
    last,         \* the outcome of the most recent call on the facade
    crc32_signed, \* whether this build's binascii.crc32 returns a signed 32-bit value
    rejected      \* history: the instances a compress of which raised for C <= 0 or N <= 0

vars == <<objs, last, crc32_signed, rejected>>

\* ------------------------------------------------- Python values, outcomes

\* A call either returns a value or raises: exc is "none" or the exception
\* class, at the function whose code raised it.
Return(val)     == [exc |-> "none", at |-> "", val |-> val]
Raise(exc, at)  == [exc |-> exc, at |-> at, val |-> <<>>]

\* The value None, and a str value, as return values that can be told apart.
None      == [type |-> "NoneType", str |-> <<>>]
Str(s)    == [type |-> "str", str |-> s]

\* len(string) and string[i] use Python's 0-based indices.
ord(c) == c

\* string[lo:hi] for 0 <= lo: the slice is cut at the end of the string, never an error.
Slice(string, lo, hi) ==
    LET top == IF hi < Len(string) THEN hi ELSE Len(string)
    IN  IF lo >= top THEN <<>> ELSE SubSeq(string, lo + 1, top)

\* ''.join(list of one-character strings)
RECURSIVE join(_)
join(sig) == IF sig = <<>> THEN <<>> ELSE Head(sig) \o join(Tail(sig))

\* Equality of two Python integers, whatever the width of their bit sequences.
PyEq(a, b) ==
    LET w == IF Len(a.mag) >= Len(b.mag) THEN Len(a.mag) ELSE Len(b.mag)
    IN  Pad(a.mag, w) = Pad(b.mag, w) /\ (a.neg = b.neg \/ IsZero(a.mag))

\* -------------------------------------------- the library calls of the code

\* Longest window length N offered to the constructor and to setN.
MaxN == 2

\* The byte strings the library routines are called with: a window is a slice
\* of at most MaxN bytes.  The two routines are tabulated over them once.
Windows == StringsUpTo(MaxN, Bytes \cup {99})

Crc32Table == [d \in Windows |-> Crc32Unsigned(d)]

Md5Table == [d \in Windows |-> HexDigest(Md5Digest(d))]

\* binascii.crc32(data): the CRC-32 of the bytes, as this build returns it:
\* a signed 32-bit value (two's complement of the register) or an unsigned one.
binascii_crc32(data) ==
    IF crc32_signed /\ Crc32Table[data][32] = 1
    THEN PyInt(TRUE, AddMod(BitNot(Crc32Table[data]), Word(0, 1)))
    ELSE PyInt(FALSE, Crc32Table[data])

\* md5.new(data).hexdigest()
md5_hexdigest(data) == Md5Table[data]

\* ------------------------------------------------------ the strategies

\* The shift taken from the byte's index in the string.
ShiftOfAbsolute(str_pos, i) == ((str_pos + i) * 8) % 56

\* The shift of byte i of the window at str_pos: i * 8 % 56.
ShiftOf(str_pos, i) == (i * 8) % 56

\* BasicCompression._hash_neighborhood: XOR of the window's bytes, byte i shifted
\* left by (i * 8) % 56 bits, abs() after every step.  string[str_pos + i]
\* raises IndexError past the end of the string.
RECURSIVE BasicLoop(_, _, _, _, _)
BasicLoop(string, str_pos, N, i, acc) ==
    IF i >= N THEN Return(acc)
    ELSE IF str_pos + i >= Len(string) THEN Raise("IndexError", "_hash_neighborhood")
    ELSE LET val == PyInt(FALSE, Bits(ord(string[str_pos + i + 1]), 8))
         IN  BasicLoop(string, str_pos, N, i + 1,
                       PyAbs(PyXor(acc, PyShl(val, ShiftOf(str_pos, i)))))

BasicCompression_hash_neighborhood(string, str_pos, N) ==
    BasicLoop(string, str_pos, N, 0, PyInt(FALSE, <<>>))

\* CRCCompression._hash_neighborhood
CRCCompression_hash_neighborhood(string, str_pos, N) ==
    Return(PyAddPow32(binascii_crc32(Slice(string, str_pos, str_pos + N))))

\* MD5Compression._hash_neighborhood
MD5Compression_hash_neighborhood(string, str_pos, N) ==
    Return(IntBase16(md5_hexdigest(Slice(string, str_pos, str_pos + N))))

\* compressor.basic, the native routine CBasicCompression delegates to: the
\* native counterpart of BasicCompression's hash, a function of the window alone.
basic(string, str_pos, N) ==
    BasicLoop(Slice(string, str_pos, str_pos + N), 0, N, 0, PyInt(FALSE, <<>>))

CBasicCompression_hash_neighborhood(string, str_pos, N) ==
    basic(string, str_pos, N)

\* The Compression instances a caller can hand to a Compressor: one of each class
\* of the module, and an instance of a subclass whose _execute returns None.
BuiltIn == {"BasicCompression", "CRCCompression", "MD5Compression", "CBasicCompression"}

Compressions == BuiltIn \cup {"NoneCompression"}

_hash_neighborhood(self, string, str_pos, N) ==
    CASE self = "BasicCompression"  -> BasicCompression_hash_neighborhood(string, str_pos, N)
      [] self = "CRCCompression"    -> CRCCompression_hash_neighborhood(string, str_pos, N)
      [] self = "MD5Compression"    -> MD5Compression_hash_neighborhood(string, str_pos, N)
      [] self = "CBasicCompression" -> CBasicCompression_hash_neighborhood(string, str_pos, N)
      [] OTHER -> Raise("NotImplementedError", "_hash_neighborhood")

\* chr(i): the one-character string of byte i, ValueError outside range(256).
chr(i) == IF i >= 0 /\ i < 256 THEN Return(<<i>>) ELSE Raise("ValueError", "_add_char")

\* Compression._add_char: the signature list after the call, or the exception.
\* h % 0 raises ZeroDivisionError.
_add_char(signature, alpha_len, h, C) ==
    IF PyMod(h, C) = 0
    THEN IF alpha_len = 0 THEN Raise("ZeroDivisionError", "_add_char")
         ELSE LET indx == PyMod(h, alpha_len)
                  c    == chr(indx)
              IN  IF c.exc # "none" THEN c ELSE Return(Append(signature, c.val))
    ELSE Return(signature)

\* The loop of _core going on up to the window that ends at the string's end.
CoreGuardInclusive(str_pos, N, str_len) == str_pos + N <= str_len

\* Whether the loop of _core goes on at str_pos.
CoreGuard(str_pos, N, str_len) == str_pos + N < str_len

\* The entry of the scan record for the window at str_pos: the position, the
\* window's bytes, the hash (h is _hash_neighborhood's outcome), the characters
\* _add_char appended (a is _add_char's outcome), and the exception raised, if any.
ScanEntry(string, N, str_pos, sig, h, a) ==
    [str_pos |-> str_pos,
     window  |-> Slice(string, str_pos, str_pos + N),
     h       |-> IF h.exc = "none" THEN h.val ELSE PyInt(FALSE, <<>>),
     added   |-> IF h.exc = "none" /\ a.exc = "none"
                 THEN SubSeq(a.val, Len(sig) + 1, Len(a.val)) ELSE <<>>,
     exc     |-> IF h.exc # "none" THEN h.exc ELSE a.exc]

\* Compression._core.  Beside the outcome, the scan is recorded: one entry per
\* window handed to _hash_neighborhood.
RECURSIVE CoreLoop(_, _, _, _, _, _, _, _)
\* The end of one iteration, a being _add_char's outcome.
CoreAdded(self, string, alpha_len, C, N, str_pos, sig, scan, h, a) ==
    IF a.exc # "none"
    THEN [exc |-> a.exc, at |-> a.at, val |-> None,
          scan |-> Append(scan, ScanEntry(string, N, str_pos, sig, h, a))]
    ELSE CoreLoop(self, string, alpha_len, C, N, str_pos + 1, a.val,
                  Append(scan, ScanEntry(string, N, str_pos, sig, h, a)))

\* The rest of one iteration, h being _hash_neighborhood's outcome.
CoreHashed(self, string, alpha_len, C, N, str_pos, sig, scan, h) ==
    IF h.exc # "none"
    THEN [exc |-> h.exc, at |-> h.at, val |-> None,
          scan |-> Append(scan, ScanEntry(string, N, str_pos, sig, h, h))]
    ELSE CoreAdded(self, string, alpha_len, C, N, str_pos, sig, scan, h,
                   _add_char(sig, alpha_len, h.val, C))

CoreLoop(self, string, alpha_len, C, N, str_pos, sig, scan) ==
    IF CoreGuard(str_pos, N, Len(string))
    THEN CoreHashed(self, string, alpha_len, C, N, str_pos, sig, scan,
                    _hash_neighborhood(self, string, str_pos, N))
    ELSE [exc |-> "none", at |-> "", val |-> Str(join(sig)), scan |-> scan]

_core(self, string, alpha_len, C, N) ==
    CoreLoop(self, string, alpha_len, C, N, 0, <<>>, <<>>)

\* The _execute of each class: the four classes of the module return _core's
\* result; the caller's subclass returns None.
_execute(self, string, alpha_len, C, N) ==
    IF self \in BuiltIn THEN _core(self, string, alpha_len, C, N)
    ELSE [exc |-> "none", at |-> "", val |-> None, scan |-> <<>>]

\* __call__ handing on whatever _execute returned.
__call__Unchecked(self, string, alpha_len, C, N) ==
    _execute(self, string, alpha_len, C, N)

\* Compression.__call__
__call__(self, string, alpha_len, C, N) ==
    LET ret == _execute(self, string, alpha_len, C, N)
    IN  IF ret.exc = "none" /\ ret.val = None
        THEN [ret EXCEPT !.exc = "Exception", !.at = "__call__"]
        ELSE ret

\* ------------------------------------------------------- the Compressor

\* The defaults of Compressor.__init__.
DefaultC == 150
DefaultN == 8
DefaultAlphaLen == 62

\* The constructor's compression argument: None (the default), an instance of a
\* Compression class, or a value that is no Compression.
NoneArg == "None"
NotACompression == "NotACompression"

isinstance_Compression(x) == x \in Compressions

\* The record of a call on the facade.
Call(op, obj, args, r) ==
    [op |-> op, obj |-> obj, args |-> args, exc |-> r.exc, at |-> r.at, val |-> r.val,
     scan |-> r.scan, string |-> r.string, warned |-> r.warned, invoked |-> r.invoked]

NoCall ==
    [op |-> "", obj |-> 0, args |-> <<>>, exc |-> "none", at |-> "", val |-> None,
     scan |-> <<>>, string |-> <<>>, warned |-> FALSE, invoked |-> FALSE]

Plain(exc, at) ==
    [exc |-> exc, at |-> at, val |-> None, scan |-> <<>>, string |-> <<>>,
     warned |-> FALSE, invoked |-> FALSE]

\* The check of __init__ off by one.
AlphaLenAcceptedFromMinusOne(alpha_len) == alpha_len >= -1

\* The check of __init__ on alpha_len.
AlphaLenAccepted(alpha_len) == alpha_len >= 0

\* Compressor.__init__: the attributes of the new instance, or the exception.
\* The base class's constructor, which is outside this file, is handed the
\* compression; get_algorithm reads it back as _compression.
__init__(compression, C, N, alpha_len) ==
    IF compression # NoneArg /\ ~isinstance_Compression(compression)
    THEN Raise("TypeError", "__init__")
    ELSE IF AlphaLenAccepted(alpha_len)
    THEN Return([C |-> C, N |-> N, _alphabet_length |-> alpha_len,
                 _compression |-> IF compression = NoneArg THEN "CRCCompression"
                                  ELSE compression])
    ELSE Raise("ValueError", "__init__")

\* __copy__ without the update of the new instance's attributes.
__copy__Default(self) ==
    __init__(NoneArg, DefaultC, DefaultN, DefaultAlphaLen).val

\* Compressor.__copy__: a default instance whose attributes are then overwritten,
\* one by one, by those of self.
__copy__(self) ==
    LET c == __init__(NoneArg, DefaultC, DefaultN, DefaultAlphaLen).val
    IN  [k \in DOMAIN c |-> IF k \in DOMAIN self THEN self[k] ELSE c[k]]

getC(self) == self.C
getN(self) == self.N
get_algorithm(self) == self._compression
get_alpha_len(self) == self._alphabet_length

\* The check of compress on the current C and N.
NonPositive(self) == self.C <= 0 \/ self.N <= 0

\* Compressor.compress: the outcome of the call.
compress(self, string) ==
    IF NonPositive(self)
    THEN [Plain("ValueError", "compress") EXCEPT !.string = string]
    ELSE LET r == __call__(get_algorithm(self), string, self._alphabet_length,
                           self.C, self.N)
         IN  [exc |-> r.exc, at |-> r.at, val |-> r.val, scan |-> r.scan,
              string |-> string, warned |-> Len(string) = 0, invoked |-> TRUE]

\* ------------------------------------------------------------- actions

Live(id) == id \in DOMAIN objs

\* c = Compressor(compression, C, N, alpha_len), c a fresh name: on an exception
\* no instance comes to exist.
Construct(id, compression, C, N, alpha_len) ==
    LET r == __init__(compression, C, N, alpha_len)
    IN  /\ ~Live(id)
        /\ objs' = IF r.exc = "none"
                   THEN [k \in DOMAIN objs \cup {id} |-> IF k = id THEN r.val ELSE objs[k]]
                   ELSE objs
        /\ last' = Call("__init__", id, <<compression, C, N, alpha_len>>, Plain(r.exc, r.at))
        /\ UNCHANGED <<crc32_signed, rejected>>

SetC(id, c) ==
    /\ Live(id)
    /\ objs' = [objs EXCEPT ![id].C = c]
    /\ last' = Call("setC", id, <<c>>, Plain("none", ""))
    /\ UNCHANGED <<crc32_signed, rejected>>

SetN(id, n) ==
    /\ Live(id)
    /\ objs' = [objs EXCEPT ![id].N = n]
    /\ last' = Call("setN", id, <<n>>, Plain("none", ""))
    /\ UNCHANGED <<crc32_signed, rejected>>

SetAlgorithm(id, alg) ==
    /\ Live(id)
    /\ objs' = [objs EXCEPT ![id]._compression = alg]
    /\ last' = Call("set_algorithm", id, <<alg>>, Plain("none", ""))
    /\ UNCHANGED <<crc32_signed, rejected>>

\* d = copy.copy(c), d a fresh name
Copy(id, new) ==
    /\ Live(id)
    /\ ~Live(new)
    /\ objs' = [k \in DOMAIN objs \cup {new} |-> IF k = new THEN __copy__(objs[id]) ELSE objs[k]]
    /\ last' = Call("__copy__", new, <<id>>, Plain("none", ""))
    /\ UNCHANGED <<crc32_signed, rejected>>

Compress(id, string) ==
    /\ Live(id)
    /\ last' = Call("compress", id, <<string>>, compress(objs[id], string))
    /\ rejected' = IF NonPositive(objs[id]) THEN rejected \cup {id} ELSE rejected
    /\ UNCHANGED <<objs, crc32_signed>>

\* ------------------------------------------------------ specifications

\* The values the constructor and the setters are called with.
CVals == {0, 1, 2}
NVals == {-1, 1, MaxN}
AlphaVals == {-1, 0, 256, 300}

Init ==
    /\ objs = <<>>
    /\ last = NoCall
    /\ crc32_signed \in BOOLEAN
    /\ rejected = {}

\* One Compressor, every configuration, every input string.
Next ==
    \/ \E compression \in Compressions \cup {NoneArg, NotACompression},
          C \in CVals, N \in NVals, alpha_len \in AlphaVals :
            Construct(1, compression, C, N, alpha_len)
    \/ \E c \in CVals : SetC(1, c)
    \/ \E n \in NVals : SetN(1, n)
    \/ \E alg \in Compressions : SetAlgorithm(1, alg)
    \/ \E string \in Strings : Compress(1, string)

Spec == Init /\ [][Next]_vars

\* Two Compressors and copies between them, over a few configurations.
DupIds == {1, 2}
DupCVals == {0, 1}
DupNVals == {-1, 1}
DupAlphaVals == {-1, 0, 256}
DupCompressions == {NoneArg, "BasicCompression", NotACompression}
DupStrings == {<<>>, Abc}

NextDup ==
    \/ \E id \in DupIds, compression \in DupCompressions,
          C \in DupCVals, N \in DupNVals, alpha_len \in DupAlphaVals :
            Construct(id, compression, C, N, alpha_len)
    \/ \E id \in DupIds, c \in DupCVals : SetC(id, c)
    \/ \E id \in DupIds, n \in DupNVals : SetN(id, n)
    \/ \E id \in DupIds, alg \in {"BasicCompression", "MD5Compression"} : SetAlgorithm(id, alg)
    \/ \E id \in DupIds, new \in DupIds : Copy(id, new)
    \/ \E id \in DupIds, string \in DupStrings : Compress(id, string)

SpecDup == Init /\ [][NextDup]_vars

\* ---------------------------------------------------------- properties

\* The instance the last call was made on (compress leaves it as it was).
Self == objs[last.obj]

\* The last call was a compress on an instance with C > 0 and N > 0.
ValidCompress ==
    /\ last.op = "compress"
    /\ Self.C > 0
    /\ Self.N > 0

Signature == last.val.str

StrLen == Len(last.string)

Max(a, b) == IF a >= b THEN a ELSE b

\* The positions of the scan, in order.
ScanPositions == [k \in 1..Len(last.scan) |-> last.scan[k].str_pos] \o <<>>

\* The signature the emission rule defines: over the windows at str_pos =
\* from .. len - N - 1 in increasing order, the symbol with code point
\* h mod alphabet_size for each window with h mod C = 0.
RECURSIVE EmittedFrom(_, _, _, _, _, _)
EmittedFrom(alg, string, alpha_len, C, N, from) ==
    IF from + N >= Len(string) THEN <<>>
    ELSE LET h == _hash_neighborhood(alg, string, from, N).val
         IN  (IF PyMod(h, C) = 0 THEN <<PyMod(h, alpha_len)>> ELSE <<>>)
                 \o EmittedFrom(alg, string, alpha_len, C, N, from + 1)

\* C1: for every string, C > 0, N > 0, alphabet size > 0 and strategy of the module,
\* compress returns the concatenation, in increasing str_pos order, of the symbol
\* with code point h mod alphabet_size for exactly the scanned windows with
\* h mod C = 0.
C1_SignatureIsEmittedSymbols ==
    (ValidCompress /\ Self._alphabet_length > 0 /\ Self._compression \in BuiltIn)
        => /\ last.exc = "none"
           /\ last.val = Str(EmittedFrom(Self._compression, last.string,
                                         Self._alphabet_length, Self.C, Self.N, 0))

\* C2: with C > 0 and N > 0, a string no longer than N gives an empty signature
\* without raising and without hashing a window; a string of length N + 1 has
\* exactly the window at 0 hashed; in general the windows hashed are exactly
\* those at 0 .. len - N - 1, so that no window reaches the end of the string.
C2_WindowsScanned ==
    (ValidCompress /\ Self._compression \in BuiltIn)
        => /\ StrLen <= Self.N
              => (last.exc = "none" /\ Signature = <<>> /\ last.val = Str(<<>>)
                  /\ last.scan = <<>>)
           /\ StrLen = Self.N + 1 => ScanPositions = <<0>>
           /\ ScanPositions = [k \in 1..Max(0, StrLen - Self.N) |-> k - 1] \o <<>>
           /\ \A k \in 1..Len(last.scan) :
                /\ last.scan[k].str_pos + Self.N < StrLen
                /\ Len(last.scan[k].window) = Self.N

\* C3 as claimed: the length of the signature compress returns never exceeds
\* len(string) - N.
C3_LengthAtMostLenMinusN ==
    (ValidCompress /\ last.exc = "none") => Len(Signature) <= StrLen - Self.N

\* C3 as amended: the length of the signature compress returns never exceeds
\* len(string) - N when the string is longer than N, and is 0 otherwise.
C3_LengthAtMostWindows ==
    (ValidCompress /\ last.exc = "none")
        => Len(Signature) <= Max(0, StrLen - Self.N)

\* A compress whose signature has one symbol for each of its two or more windows.
C3_Witness ==
    /\ ValidCompress
    /\ last.exc = "none"
    /\ StrLen - Self.N >= 2
    /\ Len(Signature) = StrLen - Self.N

\* C4: a compress whose current C <= 0 or N <= 0 raises ValueError before the
\* strategy is invoked, returns nothing and changes no attribute; the constructor
\* accepts C = 0 and N = -1; and on an instance a compress of which was refused,
\* a compress succeeds once both values are positive.
C4_Step ==
    /\ last'.op = "compress"
        => LET self == objs[last'.obj]
           IN  IF self.C <= 0 \/ self.N <= 0
               THEN /\ last'.exc = "ValueError"
                    /\ last'.at = "compress"
                    /\ ~last'.invoked
                    /\ last'.val = None
                    /\ last'.scan = <<>>
                    /\ objs' = objs
               ELSE (last'.obj \in rejected /\ self._compression \in BuiltIn)
                        => (last'.exc = "none" /\ last'.val.type = "str" /\ objs' = objs)
    /\ (/\ last'.op = "__init__"
        /\ last'.args[1] \in Compressions \cup {NoneArg}
        /\ last'.args[4] >= 0)
        => /\ last'.exc = "none"
           /\ last'.obj \in DOMAIN objs'
           /\ objs'[last'.obj].C = last'.args[2]
           /\ objs'[last'.obj].N = last'.args[3]

C4_LazyValidation == [][C4_Step]_vars

\* The outcome of _add_char for hash h on an empty list, as the pair of what it
\* appended and the exception it raised.
Emission(alpha_len, h, C) ==
    LET a == _add_char(<<>>, alpha_len, h, C)
    IN  <<IF a.exc = "none" THEN a.val ELSE <<>>, a.exc>>

\* C5: for a fixed strategy and configuration, two occurrences of the same
\* N-length substring, at two positions of one string or in two strings, get the
\* same hash, the same decision to emit and the same symbol.
C5_SameWindowSameEmission ==
    ValidCompress
        => \A k \in 1..Len(last.scan) :
            LET e == last.scan[k]
            IN  /\ \A j \in 1..Len(last.scan) :
                     last.scan[j].window = e.window
                        => /\ PyEq(last.scan[j].h, e.h)
                           /\ last.scan[j].added = e.added
                           /\ last.scan[j].exc = e.exc
                /\ \A other \in Strings : \A pos \in 0..(Len(other) - Self.N) :
                     Slice(other, pos, pos + Self.N) = e.window
                        => LET h == _hash_neighborhood(Self._compression, other, pos, Self.N)
                           IN  /\ h.exc = "none"
                               /\ PyEq(h.val, e.h)
                               /\ Emission(Self._alphabet_length, h.val, Self.C)
                                     = <<e.added, e.exc>>

\* One scan met the same window at two positions and emitted a symbol for it.
C5_Witness ==
    /\ ValidCompress
    /\ \E j, k \in 1..Len(last.scan) :
        /\ j < k
        /\ last.scan[j].window = last.scan[k].window
        /\ last.scan[j].added # <<>>

\* C6: compress never returns None: when the strategy's _execute returns None the
\* call raises Exception, and when it returns an empty signature that signature
\* is returned as a normal result.
C6_NeverReturnsNone ==
    ValidCompress
        => /\ last.exc = "none" => last.val.type = "str"
           /\ LET ret == _execute(Self._compression, last.string,
                                  Self._alphabet_length, Self.C, Self.N)
              IN  /\ (ret.exc = "none" /\ ret.val = None)
                        => (last.exc = "Exception" /\ last.at = "__call__")
                  /\ (ret.exc = "none" /\ ret.val = Str(<<>>))
                        => (last.exc = "none" /\ last.val = Str(<<>>))

\* A strategy returned None and compress raised.
C6_Witness ==
    /\ ValidCompress
    /\ Self._compression = "NoneCompression"
    /\ last.exc = "Exception"

\* C7: the constructor raises on a negative alpha_len and yields no instance;
\* every instance, after any calls on it and any copies, has get_alpha_len() >= 0.
C7_AlphaLenNonNegative ==
    /\ (last.op = "__init__" /\ last.args[4] < 0)
        => /\ last.exc \in {"ValueError", "TypeError"}
           /\ last.args[1] \in Compressions \cup {NoneArg} => last.exc = "ValueError"
           /\ last.obj \notin DOMAIN objs
    /\ \A id \in DOMAIN objs : get_alpha_len(objs[id]) >= 0

\* The constructor refused alpha_len = -1 while another instance exists.
C7_Witness ==
    /\ last.op = "__init__"
    /\ last.args[4] = -1
    /\ last.exc = "ValueError"
    /\ DOMAIN objs # {}

\* C8: the CRC strategy's hash of every window is a non-negative integer below 2^32.
C8_CrcHashFits32Bits ==
    (ValidCompress /\ Self._compression = "CRCCompression")
        => \A k \in 1..Len(last.scan) :
            /\ ~last.scan[k].h.neg
            /\ FitsIn(last.scan[k].h.mag, 32)

\* C9: a copy has the C, N, alphabet length and strategy of the original at the
\* time of the call, the copy leaves the original as it was, and a later setC,
\* setN or set_algorithm on one instance leaves every other instance as it was.
C9_Step ==
    /\ last'.op = "__copy__"
        => /\ objs'[last'.obj] = objs[last'.args[1]]
           /\ getC(objs'[last'.obj]) = getC(objs[last'.args[1]])
           /\ getN(objs'[last'.obj]) = getN(objs[last'.args[1]])
           /\ get_alpha_len(objs'[last'.obj]) = get_alpha_len(objs[last'.args[1]])
           /\ get_algorithm(objs'[last'.obj]) = get_algorithm(objs[last'.args[1]])
           /\ \A k \in DOMAIN objs : objs'[k] = objs[k]
    /\ last'.op \in {"setC", "setN", "set_algorithm"}
        => \A k \in DOMAIN objs \ {last'.obj} : objs'[k] = objs[k]

C9_CopyIsIndependent == [][C9_Step]_vars

\* A copy was just made of an instance whose attributes are not the defaults.
C9_Witness ==
    /\ last.op = "__copy__"
    /\ objs[last.obj] = objs[last.args[1]]
    /\ getC(objs[last.obj]) # DefaultC
    /\ getN(objs[last.obj]) # DefaultN
    /\ get_alpha_len(objs[last.obj]) # DefaultAlphaLen
    /\ get_algorithm(objs[last.obj]) # "CRCCompression"

\* C10: for every configuration the constructor accepts, with C > 0 and N > 0,
\* compress does not raise and every symbol of the signature has a code point in
\* [0, alphabet_size).
C10_EmissionNeverFails ==
    (ValidCompress /\ Self._compression \in BuiltIn)
        => /\ last.exc = "none"
           /\ \A k \in 1..Len(Signature) :
                Signature[k] >= 0 /\ Signature[k] < Self._alphabet_length

====
